---- MODULE Spec2Model ----
(***************************************************************************)
(* Text preparation pipeline of run.py: validate_text, wrap_text /         *)
(* wrap_text_to_width (on top of textwrap.wrap), interactive_mode and the  *)
(* control flow of main up to the hand.write call.                         *)
(*                                                                         *)
(* A text is a sequence of characters; a character is a one-element        *)
(* string, or the name of its code point ("U2018") when it is not ASCII.   *)
(***************************************************************************)
EXTENDS Integers, Sequences, FiniteSets, TLC

VARIABLES
    pc,             \* the position of the program
    source,         \* where main takes the text from: "file", "text", "interactive"
    raw,            \* the text as it was given
    text,           \* the text variable of main (the argument of the functions)
    invalid_chars,  \* invalid_chars of validate_text
    args,           \* the parsed command line: max_chars and the geometry
    requested,      \* the limit or the width passed to the wrapping function
    max_chars,      \* max_chars of wrap_text after the ceiling is applied
    lines,          \* lines of interactive_mode, then lines of main
    empty_count,    \* empty_count of interactive_mode
    entered,        \* the lines input() has returned so far
    outcome         \* how the run ended: "exit0", "exit1", "ValueError", "rendered"

vars == <<pc, source, raw, text, invalid_chars, args, requested, max_chars,
          lines, empty_count, entered, outcome>>

(***************************************************************************)
(* Bounds of the model.                                                    *)
(***************************************************************************)
MaxRawLen == 3
MaxWrapLen == 5
MaxTextLen == 3
MaxInputs == 4
MaxLines == 30

(***************************************************************************)
(* Characters.                                                             *)
(***************************************************************************)
Letters == {"a", "b", "c", "d", "e", "f", "g", "h", "i", "j", "k", "l", "m",
            "n", "o", "p", "q", "r", "s", "t", "u", "v", "w", "x", "y", "z",
            "A", "B", "C", "D", "E", "F", "G", "H", "I", "J", "K", "L", "M",
            "N", "O", "P", "Q", "R", "S", "T", "U", "V", "W", "X", "Y", "Z"}

Digits == {"0", "1", "2", "3", "4", "5", "6", "7", "8", "9"}

\* drawing.alphabet: the characters the renderer can draw, among them the
\* space and the characters the substitutions emit.
alphabet == Letters \cup Digits \cup
            {" ", "!", "\"", "#", "'", "(", ")", ",", "-", ".", ":", ";", "?"}

VALID_CHARS == alphabet

\* str.strip() / str.isspace(): the whitespace characters of the model.
Whitespace == {" ", "\t", "\n"}

IsBlank(s) == \A i \in 1..Len(s) : s[i] \in Whitespace

RECURSIVE Flatten(_)
Flatten(ss) == IF ss = <<>> THEN <<>> ELSE Head(ss) \o Flatten(Tail(ss))

RECURSIVE SumLen(_)
SumLen(ss) == IF ss = <<>> THEN 0 ELSE Len(Head(ss)) + SumLen(Tail(ss))

(***************************************************************************)
(* validate_text                                                           *)
(***************************************************************************)
\* A dash is normalised to the other dash instead of the hyphen.
SubstitutionDashSlip(c) ==
    IF c \in {"\""} THEN <<"\"">>
    ELSE IF c \in {"'", "U2018", "U2019", "U0060"} THEN <<"'">>
    ELSE IF c = "U2013" THEN <<"-">>
    ELSE IF c = "U2014" THEN <<"U2013">>
    ELSE IF c \in {"U2026"} THEN <<".", ".", ".">>
    ELSE <<>>

\* The "common substitutions" chain of the else branch.
Substitution(c) ==
    IF c \in {"\""} THEN <<"\"">>
    ELSE IF c \in {"'", "U2018", "U2019", "U0060"} THEN <<"'">>
    ELSE IF c \in {"U2013", "U2014"} THEN <<"-">>
    ELSE IF c \in {"U2026"} THEN <<".", ".", ".">>
    ELSE <<>>

\* A tab is kept as it is instead of becoming a space.
validate_charKeepTab(c) ==
    IF c \in VALID_CHARS THEN [emit |-> <<c>>, invalid |-> FALSE]
    ELSE IF c = "\n" THEN [emit |-> <<c>>, invalid |-> FALSE]
    ELSE IF c = "\t" THEN [emit |-> <<c>>, invalid |-> FALSE]
    ELSE [emit |-> Substitution(c), invalid |-> TRUE]

\* One iteration of the loop over the characters of the text.
validate_char(c) ==
    IF c \in VALID_CHARS THEN [emit |-> <<c>>, invalid |-> FALSE]
    ELSE IF c = "\n" THEN [emit |-> <<c>>, invalid |-> FALSE]
    ELSE IF c = "\t" THEN [emit |-> <<" ">>, invalid |-> FALSE]
    ELSE [emit |-> Substitution(c), invalid |-> TRUE]

RECURSIVE validate_text(_)
validate_text(t) ==
    IF t = <<>> THEN [cleaned |-> <<>>, invalid_chars |-> {}]
    ELSE LET r == validate_char(Head(t))
             rest == validate_text(Tail(t))
         IN [cleaned |-> r.emit \o rest.cleaned,
             invalid_chars |-> (IF r.invalid THEN {Head(t)} ELSE {})
                               \cup rest.invalid_chars]

(***************************************************************************)
(* textwrap.wrap(para, width=max_chars, break_long_words=True), with the   *)
(* defaults expand_tabs, replace_whitespace, drop_whitespace and           *)
(* break_on_hyphens of TextWrapper, tabsize 8.                             *)
(***************************************************************************)
tabsize == 8

Min(a, b) == IF a <= b THEN a ELSE b
Max(a, b) == IF a >= b THEN a ELSE b

\* The character at index k of s, or no character outside of s.
At(s, k) == IF k \in 1..Len(s) THEN s[k] ELSE "NONE"

Spaces(n) == [i \in 1..n |-> " "]

\* The least element of a non-empty set of integers.
Least(S) == CHOOSE x \in S : \A y \in S : x <= y

\* str.expandtabs(8): a tab fills up to the next multiple of 8 columns;
\* done is the expanded text before s.
RECURSIVE expandtabs(_, _)
expandtabs(s, done) ==
    LET tabs == {i \in 1..Len(s) : s[i] = "\t"}
    IN IF tabs = {} THEN done \o s
       ELSE LET i == Least(tabs)
                before == done \o SubSeq(s, 1, i - 1)
            IN expandtabs(SubSeq(s, i + 1, Len(s)),
                          before \o Spaces(tabsize - (Len(before) % tabsize)))

\* TextWrapper._munge_whitespace
munge_whitespace(s) ==
    LET e == expandtabs(s, <<>>)
    IN [i \in 1..Len(e) |-> IF e[i] \in Whitespace THEN " " ELSE e[i]]

\* The character classes of TextWrapper.wordsep_re: \w, [^\d\W], [\w!"'&.,?]
IsWordChar(c) == c \in Letters \cup Digits \cup {"_"}
IsLetter(c) == c \in Letters \cup {"_"}
IsWordPunct(c) == IsWordChar(c) \/ c \in {"!", "\"", "'", "&", ".", ",", "?"}

\* The length of the run of hyphens that starts at index j.
HyphenRun(s, j) == Least({k \in j..(Len(s) + 1) : At(s, k) # "-"}) - j

\* -{2,}(?=\w) matches at index j.
EmDashAt(s, j) == HyphenRun(s, j) >= 2 /\ IsWordChar(At(s, j + HyphenRun(s, j)))

\* -(?:(?<=lt{2}-)|(?<=lt-lt-))(?=lt-?lt) matches right after index j.
HyphenBreak(s, j) ==
    /\ At(s, j + 1) = "-"
    /\ \/ IsLetter(At(s, j - 1)) /\ IsLetter(At(s, j))
       \/ IsLetter(At(s, j - 2)) /\ At(s, j - 1) = "-" /\ IsLetter(At(s, j))
    /\ IsLetter(At(s, j + 2))
    /\ \/ At(s, j + 3) = "-" /\ IsLetter(At(s, j + 4))
       \/ IsLetter(At(s, j + 3))

\* (?=ws|\Z) and (?<=wp)(?=-{2,}\w) right after index j.
WordEnds(s, j) ==
    \/ j >= Len(s)
    \/ At(s, j + 1) \in Whitespace
    \/ IsWordPunct(At(s, j)) /\ EmDashAt(s, j + 1)

\* nws+? followed by one of its three endings: the lazy run stops at the
\* first index j that an ending follows; the hyphen belongs to the match.
WordMatchEnd(s, i) ==
    LET j == Least({k \in i..Len(s) : HyphenBreak(s, k) \/ WordEnds(s, k)})
    IN IF HyphenBreak(s, j) THEN j + 1 ELSE j

WhitespaceRunEnd(s, i) ==
    Least({k \in i..Len(s) : At(s, k + 1) \notin Whitespace})

\* The last index of the match of wordsep_re that starts at index i.
MatchEnd(s, i) ==
    IF s[i] \in Whitespace THEN WhitespaceRunEnd(s, i)
    ELSE IF IsWordPunct(At(s, i - 1)) /\ EmDashAt(s, i)
         THEN i + HyphenRun(s, i) - 1
    ELSE WordMatchEnd(s, i)

\* TextWrapper._split: wordsep_re.split(text) without the empty strings.
RECURSIVE split_chunks(_, _)
split_chunks(s, i) ==
    IF i > Len(s) THEN <<>>
    ELSE <<SubSeq(s, i, MatchEnd(s, i))>> \o split_chunks(s, MatchEnd(s, i) + 1)

\* chunk.rfind('-', 0, space_left), 0-based, -1 when there is none.
rfind_hyphen(chunk, space_left) ==
    LET H == {h \in 1..Min(space_left, Len(chunk)) : chunk[h] = "-"}
    IN IF H = {} THEN -1 ELSE (CHOOSE h \in H : \A g \in H : g <= h) - 1

\* The character at the cut is lost: the rest starts one character late.
handle_long_wordDropChar(chunk, cur_line, cur_len, width) ==
    LET space_left == IF width < 1 THEN 1 ELSE width - cur_len
        hyphen == rfind_hyphen(chunk, space_left)
        end == IF /\ Len(chunk) > space_left
                  /\ hyphen > 0
                  /\ \E k \in 1..hyphen : chunk[k] # "-"
               THEN hyphen + 1
               ELSE space_left
    IN [cur_line |-> Append(cur_line, SubSeq(chunk, 1, Min(end, Len(chunk)))),
        rest |-> SubSeq(chunk, Min(end, Len(chunk)) + 2, Len(chunk))]

\* TextWrapper._handle_long_word with break_long_words: the part of the
\* chunk put on the current line and the part left on the stack.
handle_long_word(chunk, cur_line, cur_len, width) ==
    LET space_left == IF width < 1 THEN 1 ELSE width - cur_len
        hyphen == rfind_hyphen(chunk, space_left)
        end == IF /\ Len(chunk) > space_left
                  /\ hyphen > 0
                  /\ \E k \in 1..hyphen : chunk[k] # "-"
               THEN hyphen + 1
               ELSE space_left
    IN [cur_line |-> Append(cur_line, SubSeq(chunk, 1, Min(end, Len(chunk)))),
        rest |-> SubSeq(chunk, Min(end, Len(chunk)) + 1, Len(chunk))]

\* The number of leading chunks that fit on the current line.
RECURSIVE Fit(_, _, _)
Fit(chunks, cur_len, width) ==
    IF chunks # <<>> /\ cur_len + Len(Head(chunks)) <= width
    THEN 1 + Fit(Tail(chunks), cur_len + Len(Head(chunks)), width)
    ELSE 0

\* TextWrapper._wrap_chunks for width > 0: one round of the outer loop
\* builds one line; done holds the lines built so far.
RECURSIVE wrap_chunks(_, _, _)
wrap_chunks(chunks, done, width) ==
    IF chunks = <<>> THEN done
    ELSE LET c0 == IF IsBlank(Head(chunks)) /\ done # <<>>
                   THEN Tail(chunks) ELSE chunks
             k == Fit(c0, 0, width)
             line1 == SubSeq(c0, 1, k)
             rest1 == SubSeq(c0, k + 1, Len(c0))
             long == rest1 # <<>> /\ Len(Head(rest1)) > width
             h == handle_long_word(Head(rest1), line1, SumLen(line1), width)
             line2 == IF long THEN h.cur_line ELSE line1
             rest2 == IF long THEN <<h.rest>> \o Tail(rest1) ELSE rest1
             line3 == IF line2 # <<>> /\ IsBlank(line2[Len(line2)])
                      THEN SubSeq(line2, 1, Len(line2) - 1) ELSE line2
         IN wrap_chunks(rest2,
                        IF line3 # <<>> THEN Append(done, Flatten(line3))
                                        ELSE done,
                        width)

\* textwrap.wrap: ValueError for a width <= 0, else the lines.
textwrap_wrap(para, width) ==
    IF width <= 0 THEN [raised |-> TRUE, lines |-> <<>>]
    ELSE [raised |-> FALSE,
          lines |-> wrap_chunks(split_chunks(munge_whitespace(para), 1),
                                <<>>, width)]

(***************************************************************************)
(* wrap_text and wrap_text_to_width                                        *)
(***************************************************************************)
\* text.split('\n'): paragraph k lies between newline k-1 and newline k.
split_newline(t) ==
    LET newlines == {i \in 1..Len(t) : t[i] = "\n"}
        nth(k) == IF k = 0 THEN 0
                  ELSE IF k > Cardinality(newlines) THEN Len(t) + 1
                  ELSE CHOOSE i \in newlines :
                           Cardinality({j \in newlines : j < i}) = k - 1
    IN [k \in 1..(Cardinality(newlines) + 1) |->
           SubSeq(t, nth(k - 1) + 1, nth(k) - 1)]

\* The model limit of the renderer is not applied to the requested limit.
effective_max_charsNoCeiling(limit) == limit

\* max_chars = min(max_chars, 75)
effective_max_chars(limit) == Min(limit, 75)

\* A blank paragraph adds nothing to the lines.
wrap_paragraphDropBlank(para, width) ==
    IF IsBlank(para) THEN [raised |-> FALSE, lines |-> <<>>]
    ELSE LET w == textwrap_wrap(para, width)
         IN IF w.raised THEN w
            ELSE [raised |-> FALSE,
                  lines |-> IF w.lines # <<>> THEN w.lines ELSE << <<>> >>]

\* The body of the loop over the paragraphs.
wrap_paragraph(para, width) ==
    IF IsBlank(para) THEN [raised |-> FALSE, lines |-> << <<>> >>]
    ELSE LET w == textwrap_wrap(para, width)
         IN IF w.raised THEN w
            ELSE [raised |-> FALSE,
                  lines |-> IF w.lines # <<>> THEN w.lines ELSE << <<>> >>]

RECURSIVE wrap_paragraphs(_, _)
wrap_paragraphs(paragraphs, width) ==
    IF paragraphs = <<>> THEN [raised |-> FALSE, lines |-> <<>>]
    ELSE LET first == wrap_paragraph(Head(paragraphs), width)
             rest == wrap_paragraphs(Tail(paragraphs), width)
         IN IF first.raised \/ rest.raised
            THEN [raised |-> TRUE, lines |-> <<>>]
            ELSE [raised |-> FALSE, lines |-> first.lines \o rest.lines]

\* wrap_text(text, max_chars): the lines, or raised when textwrap.wrap raises.
wrap_text(t, limit) ==
    wrap_paragraphs(split_newline(t), effective_max_chars(limit))

\* int(x / y) for y > 0: the quotient truncated towards zero.
IntDiv(x, y) == IF x >= 0 THEN x \div y ELSE -((-x) \div y)

avg_char_width == 10
scale_factor_times_2 == 3

\* The lower limit of one character is missing.
width_max_charsNoFloor(available_width) ==
    Min(IntDiv(2 * available_width, avg_char_width * scale_factor_times_2), 75)

\* max_chars of wrap_text_to_width: min(max(1, int(width / (10 * 1.5))), 75)
width_max_chars(available_width) ==
    Min(Max(1, IntDiv(2 * available_width,
                      avg_char_width * scale_factor_times_2)), 75)

wrap_text_to_width(t, available_width) ==
    wrap_text(t, width_max_chars(available_width))

(***************************************************************************)
(* Inputs of the validation runs.                                          *)
(***************************************************************************)
RawChars == {"a", " ", "\n", "\t", "\"", "U0060", "-", "U2018", "U2014",
             "U2026", "U201C", "U00A7"}

\* The texts of at most n characters over chars.
TextsOver(chars, n) == UNION {[1..k -> chars] : k \in 0..n}

NoArgs == [max_chars |-> 75, view_width |-> 1000, left_margin |-> 50,
           right_margin |-> 50]

InitValidate ==
    /\ pc = "validate"
    /\ raw \in TextsOver(RawChars, MaxRawLen)
    /\ text = raw
    /\ invalid_chars = {}
    /\ source = "none"
    /\ args = NoArgs
    /\ requested = 0
    /\ max_chars = 0
    /\ lines = <<>>
    /\ empty_count = 0
    /\ entered = <<>>
    /\ outcome = "none"

\* text = validate_text(text), first call.
Validate ==
    /\ pc = "validate"
    /\ LET r == validate_text(text)
       IN /\ text' = r.cleaned
          /\ invalid_chars' = r.invalid_chars
    /\ pc' = "validated"
    /\ UNCHANGED <<source, raw, args, requested, max_chars, lines, empty_count,
                   entered, outcome>>

\* validate_text applied to its own result.
Revalidate ==
    /\ pc = "validated"
    /\ LET r == validate_text(text)
       IN /\ text' = r.cleaned
          /\ invalid_chars' = r.invalid_chars
    /\ pc' = "revalidated"
    /\ UNCHANGED <<source, raw, args, requested, max_chars, lines, empty_count,
                   entered, outcome>>

NextValidate == Validate \/ Revalidate

SpecValidate == InitValidate /\ [][NextValidate]_vars

(***************************************************************************)
(* interactive_mode                                                        *)
(***************************************************************************)
\* '\n'.join(lines)
RECURSIVE join_newline(_)
join_newline(ls) ==
    IF ls = <<>> THEN <<>>
    ELSE IF Len(ls) = 1 THEN ls[1]
    ELSE ls[1] \o <<"\n">> \o join_newline(Tail(ls))

\* A line that is not empty leaves the count of empty lines as it is.
input_stepNoReset(ls, count, line) ==
    IF line = <<>>
    THEN IF count + 1 >= 2
         THEN [lines |-> ls, empty_count |-> count + 1, stop |-> TRUE]
         ELSE [lines |-> Append(ls, <<>>), empty_count |-> count + 1,
               stop |-> FALSE]
    ELSE [lines |-> Append(ls, line), empty_count |-> count, stop |-> FALSE]

\* The body of the while loop for the line input() has returned.
input_step(ls, count, line) ==
    IF line = <<>>
    THEN IF count + 1 >= 2
         THEN [lines |-> ls, empty_count |-> count + 1, stop |-> TRUE]
         ELSE [lines |-> Append(ls, <<>>), empty_count |-> count + 1,
               stop |-> FALSE]
    ELSE [lines |-> Append(ls, line), empty_count |-> 0, stop |-> FALSE]

(***************************************************************************)
(* main                                                                    *)
(***************************************************************************)
MainChars == {"a", " ", "\n", "U00A7"}
MainTexts == TextsOver(MainChars, MaxTextLen)
InputLines == {<<>>, <<"a">>, <<"U00A7">>}

ArgSets == [max_chars : {0, 2, 75, 80},
            view_width : {1000, 1010, 1200},
            left_margin : {0, 50},
            right_margin : {50, 1000}]

Init ==
    /\ pc = "get_text"
    /\ source = "none"
    /\ raw = <<>>
    /\ text = <<>>
    /\ invalid_chars = {}
    /\ args \in ArgSets
    /\ requested = 0
    /\ max_chars = 0
    /\ lines = <<>>
    /\ empty_count = 0
    /\ entered = <<>>
    /\ outcome = "none"

\* --list-styles: print the styles, sys.exit(0).
ListStyles ==
    /\ pc = "get_text"
    /\ pc' = "done"
    /\ outcome' = "exit0"
    /\ UNCHANGED <<source, raw, text, invalid_chars, args, requested,
                   max_chars, lines, empty_count, entered>>

\* --file names a file that does not exist: sys.exit(1).
FileNotFound ==
    /\ pc = "get_text"
    /\ source' = "file"
    /\ pc' = "done"
    /\ outcome' = "exit1"
    /\ UNCHANGED <<raw, text, invalid_chars, args, requested, max_chars,
                   lines, empty_count, entered>>

\* text = f.read()
ReadFile ==
    /\ pc = "get_text"
    /\ \E t \in MainTexts : raw' = t /\ text' = t
    /\ source' = "file"
    /\ pc' = "check_text"
    /\ UNCHANGED <<invalid_chars, args, requested, max_chars, lines,
                   empty_count, entered, outcome>>

\* text = args.text, which is not empty.
TextArgument ==
    /\ pc = "get_text"
    /\ \E t \in MainTexts \ {<<>>} : raw' = t /\ text' = t
    /\ source' = "text"
    /\ pc' = "check_text"
    /\ UNCHANGED <<invalid_chars, args, requested, max_chars, lines,
                   empty_count, entered, outcome>>

\* Neither a file nor a text: interactive_mode() starts with no lines.
StartInteractive ==
    /\ pc = "get_text"
    /\ source' = "interactive"
    /\ lines' = <<>>
    /\ empty_count' = 0
    /\ pc' = "input"
    /\ UNCHANGED <<raw, text, invalid_chars, args, requested, max_chars,
                   entered, outcome>>

\* input() returns a line; the second empty line in a row ends the loop and
\* interactive_mode returns the lines joined with newlines.
InputLine ==
    /\ pc = "input"
    /\ Len(entered) < MaxInputs
    /\ \E line \in InputLines :
          LET r == input_step(lines, empty_count, line)
          IN /\ entered' = Append(entered, line)
             /\ lines' = r.lines
             /\ empty_count' = r.empty_count
             /\ pc' = IF r.stop THEN "check_text" ELSE "input"
             /\ text' = IF r.stop THEN join_newline(r.lines) ELSE text
             /\ raw' = IF r.stop THEN join_newline(r.lines) ELSE raw
    /\ UNCHANGED <<source, invalid_chars, args, requested, max_chars, outcome>>

\* input() raises EOFError: interactive_mode returns what it has.
InputEOF ==
    /\ pc = "input"
    /\ text' = join_newline(lines)
    /\ raw' = join_newline(lines)
    /\ pc' = "check_text"
    /\ UNCHANGED <<source, invalid_chars, args, requested, max_chars, lines,
                   empty_count, entered, outcome>>

\* if not text.strip(): "Error: No text provided", sys.exit(1).
CheckText ==
    /\ pc = "check_text"
    /\ IF IsBlank(text)
       THEN pc' = "done" /\ outcome' = "exit1"
       ELSE pc' = "validate_text" /\ outcome' = outcome
    /\ UNCHANGED <<source, raw, text, invalid_chars, args, requested,
                   max_chars, lines, empty_count, entered>>

\* text = validate_text(text) in main.
ValidateText ==
    /\ pc = "validate_text"
    /\ LET r == validate_text(text)
       IN /\ text' = r.cleaned
          /\ invalid_chars' = r.invalid_chars
    /\ pc' = "wrap"
    /\ UNCHANGED <<source, raw, args, requested, max_chars, lines, empty_count,
                   entered, outcome>>

\* The wrapping of main: wrap_text with the limit of the command line when
\* it is not 75, wrap_text_to_width with the available width otherwise.
Wrap ==
    /\ pc = "wrap"
    /\ LET available_width ==
               args.view_width - args.left_margin - args.right_margin
           explicit == args.max_chars # 75
       IN \E r \in {IF explicit THEN wrap_text(text, args.max_chars)
                    ELSE wrap_text_to_width(text, available_width)} :
          /\ requested' = IF explicit THEN args.max_chars ELSE available_width
          /\ max_chars' = IF explicit THEN effective_max_chars(args.max_chars)
                          ELSE effective_max_chars(
                                   width_max_chars(available_width))
          /\ lines' = r.lines
          /\ outcome' = IF r.raised THEN "ValueError" ELSE outcome
          /\ pc' = IF r.raised THEN "done" ELSE "check_lines"
    /\ UNCHANGED <<source, raw, text, invalid_chars, args, empty_count, entered>>

\* if not lines: "Error: No valid text to render", sys.exit(1).
CheckLines ==
    /\ pc = "check_lines"
    /\ IF lines = <<>>
       THEN pc' = "done" /\ outcome' = "exit1"
       ELSE pc' = "render" /\ outcome' = outcome
    /\ UNCHANGED <<source, raw, text, invalid_chars, args, requested,
                   max_chars, lines, empty_count, entered>>

\* hand.write(lines=lines, ...)
Render ==
    /\ pc = "render"
    /\ outcome' = "rendered"
    /\ pc' = "done"
    /\ UNCHANGED <<source, raw, text, invalid_chars, args, requested,
                   max_chars, lines, empty_count, entered>>

Next ==
    \/ ListStyles
    \/ FileNotFound
    \/ ReadFile
    \/ TextArgument
    \/ StartInteractive
    \/ InputLine
    \/ InputEOF
    \/ CheckText
    \/ ValidateText
    \/ Wrap
    \/ CheckLines
    \/ Render

Spec == Init /\ [][Next]_vars

(***************************************************************************)
(* validate_text: the claims.                                              *)
(***************************************************************************)
\* C3: whatever the input text, every character of the text validate_text
\* returns is a character of the alphabet or a newline.
C3_OutputSupportedOrNewline ==
    pc = "validated" =>
        \A i \in 1..Len(text) : text[i] \in alphabet \cup {"\n"}

C3_Witness ==
    /\ pc = "validated"
    /\ raw = <<"\t", "U2026", "U00A7">>
    /\ text = <<" ", ".", ".", ".">>

\* C6: the set validate_text records holds exactly the characters of the
\* input that are outside the alphabet, are neither newline nor tab, and
\* have no substitution; a substituted character is not recorded.
C6_RecordedExactlyWhenDropped ==
    pc = "validated" =>
        invalid_chars = {c \in {raw[i] : i \in 1..Len(raw)} :
                            /\ c \notin VALID_CHARS
                            /\ c # "\n"
                            /\ c # "\t"
                            /\ Substitution(c) = <<>>}

\* C9: validating the validated text again returns it unchanged.
C9_Idempotent ==
    pc = "revalidated" => text = validate_text(raw).cleaned

C9_Witness ==
    /\ pc = "revalidated"
    /\ raw = <<"U2014", "\t", "U00A7">>
    /\ text = <<"-", " ">>

(***************************************************************************)
(* Calls of wrap_text and wrap_text_to_width on their own.                 *)
(***************************************************************************)
WrapChars == {"a", "-", " ", "\n"}

LineOneTwo == <<"l", "i", "n", "e", " ", "o", "n", "e", "\n", "\n",
                "l", "i", "n", "e", " ", "t", "w", "o">>
LongWord == [i \in 1..100 |-> IF i % 10 = 0 THEN "b" ELSE "a"]
LongLine == [i \in 1..90 |-> IF i % 7 = 0 THEN " " ELSE "c"]
IndentedWord == <<" ", " ", " ", "h", "e", "l", "l", "o">>
TabbedWords == <<"a", "\t", "b", " ", " ", "c", "d", "\t">>
Hyphenated == <<"g", "o", "o", "f", "-", "b", "a", "l", "l", " ", "-", "-",
                " ", "u", "s", "e">>

ExampleTexts == {LineOneTwo, LongWord, LongLine, IndentedWord, TabbedWords,
                 Hyphenated}

MaxCharsInputs == {-1, 0, 1, 2, 3, 4, 8, 20, 76}
WidthInputs == {-30, 0, 15, 45, 300, 2000}

InitWrap ==
    /\ pc = "call"
    /\ source = "none"
    /\ raw \in TextsOver(WrapChars, MaxWrapLen) \cup ExampleTexts
    /\ text = raw
    /\ invalid_chars = {}
    /\ args = NoArgs
    /\ requested = 0
    /\ max_chars = 0
    /\ lines = <<>>
    /\ empty_count = 0
    /\ entered = <<>>
    /\ outcome = "none"

\* lines = wrap_text(text, m)
WrapText ==
    /\ pc = "call"
    /\ \E m \in MaxCharsInputs :
          /\ Len(text) <= Max(m, 1) * MaxLines
          /\ \E r \in {wrap_text(text, m)} :
             /\ requested' = m
             /\ max_chars' = effective_max_chars(m)
             /\ lines' = r.lines
             /\ outcome' = IF r.raised THEN "ValueError" ELSE "none"
             /\ pc' = IF r.raised THEN "raised" ELSE "wrapped"
    /\ UNCHANGED <<source, raw, text, invalid_chars, args, empty_count, entered>>

\* lines = wrap_text_to_width(text, w)
WrapTextToWidth ==
    /\ pc = "call"
    /\ \E w \in WidthInputs :
          /\ Len(text) <= width_max_chars(w) * MaxLines
          /\ \E r \in {wrap_text_to_width(text, w)} :
             /\ requested' = w
             /\ max_chars' = effective_max_chars(width_max_chars(w))
             /\ lines' = r.lines
             /\ outcome' = IF r.raised THEN "ValueError" ELSE "none"
             /\ pc' = IF r.raised THEN "raised" ELSE "wrapped_to_width"
    /\ UNCHANGED <<source, raw, text, invalid_chars, args, empty_count, entered>>

NextWrap == WrapText \/ WrapTextToWidth

SpecWrap == InitWrap /\ [][NextWrap]_vars

(***************************************************************************)
(* wrap_text and wrap_text_to_width: the claims.                           *)
(***************************************************************************)
NonWhitespace(s) == SelectSeq(s, LAMBDA c : c \notin Whitespace)

EmptyLines == {i \in 1..Len(lines) : lines[i] = <<>>}

BlankParagraphs ==
    {k \in 1..Len(split_newline(text)) : IsBlank(split_newline(text)[k])}

\* C1: for a requested limit of at least 1, above 75 included, no line
\* wrap_text returns is longer than min(limit, 75); no line
\* wrap_text_to_width returns is longer than 75, whatever the width.
C1_LinesWithinCeiling ==
    /\ pc = "wrapped" /\ requested >= 1 =>
           \A i \in 1..Len(lines) : Len(lines[i]) <= Min(requested, 75)
    /\ pc = "wrapped_to_width" =>
           \A i \in 1..Len(lines) : Len(lines[i]) <= 75

C1_Witness ==
    /\ pc = "wrapped"
    /\ requested = 76
    /\ text = LongWord
    /\ Len(lines) = 2
    /\ Len(lines[1]) = 75

\* C4: called with a limit below 1, wrap_text wraps as with the limit 1
\* and returns the lines instead of failing.
C4_LimitBelowOneClampedToOne ==
    pc \in {"wrapped", "raised"} /\ requested < 1 =>
        /\ outcome # "ValueError"
        /\ pc = "wrapped"
        /\ lines = wrap_text(text, 1).lines

\* C7: the lines are the lines of the paragraphs, in paragraph order, a
\* blank paragraph giving exactly one empty line; "line one\n\nline two"
\* gives its three lines for a limit of 8 or more, the empty text one
\* empty line.
C7_ParagraphStructure ==
    pc = "wrapped" =>
        LET paragraphs == split_newline(text)
            of(k) == IF IsBlank(paragraphs[k]) THEN << <<>> >>
                     ELSE wrap_text(paragraphs[k], requested).lines
        IN /\ Len(paragraphs) =
                  Cardinality({i \in 1..Len(text) : text[i] = "\n"}) + 1
           /\ lines = Flatten([k \in 1..Len(paragraphs) |-> of(k)])
           /\ \A k \in 1..Len(paragraphs) : of(k) # <<>>
           /\ text = <<>> => lines = << <<>> >>
           /\ text = LineOneTwo /\ requested >= 8 =>
                  lines = <<SubSeq(LineOneTwo, 1, 8), <<>>,
                            SubSeq(LineOneTwo, 11, 18)>>

C7_Witness ==
    /\ pc = "wrapped"
    /\ text = LineOneTwo
    /\ requested = 8
    /\ Len(lines) = 3
    /\ lines[2] = <<>>

\* C8: for a limit of at least 1 the non-whitespace characters of the
\* lines, in order, are those of the text; a text that is one word is cut
\* into lines whose concatenation is the word; and a line is empty only for
\* a blank paragraph.
C8_NoContentLost ==
    pc = "wrapped" /\ requested >= 1 =>
        /\ NonWhitespace(Flatten(lines)) = NonWhitespace(text)
        /\ text # <<>> /\ NonWhitespace(text) = text =>
               /\ Flatten(lines) = text
               /\ \A i \in 1..Len(lines) : lines[i] # <<>>
        /\ Cardinality(EmptyLines) = Cardinality(BlankParagraphs)

C8_Witness ==
    /\ pc = "wrapped"
    /\ text = LongWord
    /\ requested = 20
    /\ Len(lines) = 5
    /\ \A i \in 1..5 : lines[i] = SubSeq(LongWord, 20 * i - 19, 20 * i)

(***************************************************************************)
(* main and interactive_mode: the claims.                                  *)
(***************************************************************************)
\* C2: when no line has content that is not whitespace after validate_text
\* and the wrapping, main ends in an error and never reaches hand.write.
C2_BlankLinesNeverRendered ==
    pc = "render" => \E i \in 1..Len(lines) : ~IsBlank(lines[i])

\* C5: with max_chars at its default 75 the limit the wrapping uses is
\* floor(max(1, view_width - left_margin - right_margin) / 15) clamped to
\* 1..75, also for margins that leave no width; it is 60 for the width 1000
\* and the margins 50 and 50.
C5_GeometryLimit ==
    pc \in {"check_lines", "render"} /\ args.max_chars = 75 =>
        LET availableWidth ==
                Max(1, args.view_width - args.left_margin - args.right_margin)
        IN /\ max_chars = Min(Max(availableWidth \div 15, 1), 75)
           /\ args.view_width = 1000 /\ args.left_margin = 50
                  /\ args.right_margin = 50 => max_chars = 60

C5_Witness ==
    /\ pc = "check_lines"
    /\ args = [max_chars |-> 75, view_width |-> 1000, left_margin |-> 50,
               right_margin |-> 50]
    /\ max_chars = 60
    /\ lines # <<>>

NoTwoEmptyInARow(ls) ==
    \A i \in 1..(Len(ls) - 1) : ~(ls[i] = <<>> /\ ls[i + 1] = <<>>)

EndsWithTwoEmpty(ls) ==
    Len(ls) >= 2 /\ ls[Len(ls)] = <<>> /\ ls[Len(ls) - 1] = <<>>

\* C10: interactive_mode reads on as long as no two empty lines in a row
\* have been entered and collects every line it reads; it stops at the
\* second empty line in a row, which it does not collect while the first
\* one stays collected, or at the end of the input; it returns the
\* collected lines joined with newlines, and the collected lines never
\* hold two empty lines in a row.
C10_InteractiveStopsAtSecondEmptyLine ==
    /\ pc = "input" => lines = entered /\ NoTwoEmptyInARow(entered)
    /\ source = "interactive" /\ pc = "check_text" =>
           /\ text = join_newline(lines)
           /\ NoTwoEmptyInARow(lines)
           /\ IF EndsWithTwoEmpty(entered)
              THEN /\ lines = SubSeq(entered, 1, Len(entered) - 1)
                   /\ lines[Len(lines)] = <<>>
              ELSE lines = entered

C10_Witness ==
    /\ pc = "check_text"
    /\ source = "interactive"
    /\ entered = << <<>>, <<"a">>, <<>>, <<>> >>
    /\ lines = << <<>>, <<"a">>, <<>> >>
    /\ text = <<"\n", "a", "\n">>

====
